---- MODULE Spec2Model ----
(***************************************************************************)
(* labrad.decorators: the setting() decorator and _product().              *)
(*                                                                         *)
(* State: the keyword dict `params` captured by the closure that           *)
(* setting(...) returns, the outcome of the latest decorated(f) call       *)
(* (`reg`: the handler's parameters and either the exception raised or the *)
(* metadata attached to f), and the latest f.unpack(self, c, data) call    *)
(* (`call`).  A second specification, SpecProduct, applies _product to     *)
(* bounded inputs.                                                         *)
(*                                                                         *)
(* Handlers are taken after `args = args[lr_num_params:]`; their defaults  *)
(* belong to trailing non-context parameters, so 0 <= Nrequired.           *)
(* f.ID, f.name and f.returns are copies of setting()'s arguments and are  *)
(* not part of the state.                                                  *)
(***************************************************************************)
EXTENDS Integers, Sequences, FiniteSets, TLC

VARIABLES params, reg, call, lists, combos, pc

vars == <<params, reg, call, lists, combos, pc>>

(***************************************************************************)
(* Bounds                                                                  *)
(***************************************************************************)
\* most parameters a handler has after the context parameters
MaxParams == 3
\* most type tags declared in one setting(...) call, over all parameters
MaxTags == 2
\* _product inputs: most positions, most candidates per position
MaxPositions == 2
MaxChoices == 2

\* declared type tags: no-argument, wildcard, a plain type, a cluster
Tags == {"", "?", "s", "(ss)"}
\* atoms of scalar payloads
PayloadVals == {0, 1}
\* candidates of _product positions
Elems == {"a", "b", "c"}

(***************************************************************************)
(* Generic helpers                                                         *)
(***************************************************************************)
Range(s) == {s[i] : i \in 1..Len(s)}

SeqsUpTo(S, n) == UNION {[1..k -> S] : k \in 0..n}

RECURSIVE Join(_, _)
\* sep.join(strs)
Join(strs, sep) ==
    IF Len(strs) = 0 THEN ""
    ELSE IF Len(strs) = 1 THEN strs[1]
    ELSE strs[1] \o sep \o Join(Tail(strs), sep)

RECURSIVE Concat(_)
\* the concatenation of a sequence of sequences
Concat(ss) == IF Len(ss) = 0 THEN <<>> ELSE Head(ss) \o Concat(Tail(ss))

ArgName(i) == "arg" \o ToString(i)

\* the handler's parameter names after the context parameters, 1-based
ArgNames(n) == [i \in 1..n |-> ArgName(i - 1)]

(***************************************************************************)
(* labrad.types as used by the decorator                                   *)
(***************************************************************************)
LRNone == [cls |-> "LRNone", tag |-> "_", items |-> <<>>]
LRAny == [cls |-> "LRAny", tag |-> "?", items |-> <<>>]
LRStr == [cls |-> "LRStr", tag |-> "s", items |-> <<>>]

LRCluster(ts) ==
    [cls |-> "LRCluster",
     tag |-> "(" \o Join([i \in 1..Len(ts) |-> ts[i].tag], "") \o ")",
     items |-> ts]

\* a tag with its comment removed: the text from ':' on is a comment, and
\* the only strings outside Tags that reach the parser are the
\* ': defaults [...]' annotations, which are all comment
StripComments(s) == IF s \in Tags THEN s ELSE ""

parseTypeTag(s) ==
    LET b == StripComments(s) IN
    CASE b = "" -> LRNone
      [] b = "?" -> LRAny
      [] b = "s" -> LRStr
      [] b = "(ss)" -> LRCluster(<<LRStr, LRStr>>)

ParseAll(ss) == [i \in 1..Len(ss) |-> parseTypeTag(ss[i])]

(***************************************************************************)
(* _product                                                                *)
(***************************************************************************)
RECURSIVE ProductInnerFirst(_)
\* _product with its two loops exchanged: for t in ..., for h in ...
ProductInnerFirst(ls) ==
    IF Len(ls) = 0 THEN << <<>> >>
    ELSE LET rest == ProductInnerFirst(Tail(ls)) IN
         Concat([t \in 1..Len(rest) |->
                    [h \in 1..Len(ls[1]) |-> <<ls[1][h]>> \o rest[t]]])

RECURSIVE _product(_)
_product(ls) ==
    IF Len(ls) = 0 THEN << <<>> >>
    ELSE LET rest == _product(Tail(ls)) IN
         Concat([h \in 1..Len(ls[1]) |->
                    [t \in 1..Len(rest) |-> <<ls[1][h]>> \o rest[t]]])

(***************************************************************************)
(* setting(...)(f): decorated                                              *)
(***************************************************************************)
\* params.get(a, dflt)
ParamsGet(p, a, dflt) == IF a \in DOMAIN p THEN p[a] ELSE dflt

\* an append to accepts_s as the caller's dict sees it: the list is the
\* caller's own when the parameter is declared, a fresh [] otherwise
ParamsAppended(p, a, s) == IF a \in DOMAIN p THEN [p EXCEPT ![a] = s] ELSE p

ErrNotValid(p) == "'" \o p \o "' is not a valid parameter."
ErrMustSpecify ==
    "Must specify types for first argument when fewer than two args are required."
ErrClusterOrAny ==
    "Cannot accept cluster or ? in first arg when fewer than two args are required."
ErrEmptyFirst == "'' not allowed when more than one arg is required."
ErrEmptyAfter == "'' not allowed after first arg."
ErrClusterFirst == "Can't accept cluster in first param."

\* the state of f before any decorated(f) call
NotDecorated ==
    [attempted |-> FALSE, args |-> <<>>, defaults |-> <<>>, error |-> "",
     accepts |-> <<>>, accepts_t |-> <<>>, groups |-> <<>>,
     appended |-> FALSE, unpack |-> "", isSetting |-> FALSE]

\* decorated(f) raised: f carries no metadata
Raised(args, defaults, msg) ==
    [attempted |-> TRUE, args |-> args, defaults |-> defaults, error |-> msg,
     accepts |-> <<>>, accepts_t |-> <<>>, groups |-> <<>>,
     appended |-> FALSE, unpack |-> "", isSetting |-> FALSE]

\* decorated(f) returned f with its metadata attached
Annotated(args, defaults, accepts_s, accepts_t, groups, appended, unpack) ==
    [attempted |-> TRUE, args |-> args, defaults |-> defaults, error |-> "",
     accepts |-> accepts_s, accepts_t |-> accepts_t, groups |-> groups,
     appended |-> appended, unpack |-> unpack, isSetting |-> TRUE]

\* '%s=%r' % (name, value)
NameEqValue(name, value) == name \o "=" \o ToString(value)

\* Nparams == 0
Decorated0(p, args, defaults) ==
    [reg |-> Annotated(args, defaults, <<"">>, <<parseTypeTag("")>>, <<>>,
                       FALSE, "unpack0"),
     params |-> p]

\* the same condition without its len(accepts_t) test
AppendsNone1Unguarded(accepts_t) == LRNone \notin Range(accepts_t)

\* the condition under which the one-parameter branch appends its
\* no-argument entry
AppendsNone1(accepts_t) == Len(accepts_t) > 0 /\ LRNone \notin Range(accepts_t)

\* Nparams == 1; accepts_s is the caller's own list when one is declared
Decorated1(p, args, defaults) ==
    LET Nrequired == Len(args) - Len(defaults)
        accepts_s == ParamsGet(p, args[1], <<>>)
        accepts_t == ParseAll(accepts_s)
    IN  IF Nrequired = 0
        THEN IF AppendsNone1(accepts_t)
             THEN LET s == Append(accepts_s,
                                  ": defaults ["
                                  \o NameEqValue(args[1], defaults[1]) \o "]")
                  IN  [reg |-> Annotated(args, defaults, s,
                                         Append(accepts_t, LRNone), <<>>,
                                         TRUE, "unpack1opt"),
                       params |-> ParamsAppended(p, args[1], s)]
             ELSE [reg |-> Annotated(args, defaults, accepts_s, accepts_t,
                                     <<>>, FALSE, "unpack1opt"),
                   params |-> p]
        ELSE [reg |-> Annotated(args, defaults, accepts_s, accepts_t, <<>>,
                                FALSE, "f"),
              params |-> p]

\* the first-argument check testing for LRAny alone
FirstArgCheckAnyOnly(p, args, Nrequired) ==
    IF Nrequired <= 1
    THEN IF args[1] \notin DOMAIN p THEN ErrMustSpecify
         ELSE IF \E i \in 1..Len(p[args[1]]) :
                    parseTypeTag(p[args[1]][i]).cls = "LRAny"
              THEN ErrClusterOrAny
              ELSE ""
    ELSE ""

\* the first-argument check applied only when no parameter is required
FirstArgCheckNoneRequired(p, args, Nrequired) ==
    IF Nrequired < 1
    THEN IF args[1] \notin DOMAIN p THEN ErrMustSpecify
         ELSE IF \E i \in 1..Len(p[args[1]]) :
                    parseTypeTag(p[args[1]][i]).cls \in {"LRAny", "LRCluster"}
              THEN ErrClusterOrAny
              ELSE ""
    ELSE ""

\* the first-argument sanity check: the message raised, "" when it passes
FirstArgCheck(p, args, Nrequired) ==
    IF Nrequired <= 1
    THEN IF args[1] \notin DOMAIN p THEN ErrMustSpecify
         ELSE IF \E i \in 1..Len(p[args[1]]) :
                    parseTypeTag(p[args[1]][i]).cls \in {"LRAny", "LRCluster"}
              THEN ErrClusterOrAny
              ELSE ""
    ELSE ""

\* the '' checks with the loop over args[2:] in place of args[1:]
EmptyTagCheckFromThird(p, args, Nrequired) ==
    IF Nrequired > 1 /\ LRNone \in Range(ParseAll(ParamsGet(p, args[1], <<>>)))
    THEN ErrEmptyFirst
    ELSE IF \E i \in 3..Len(args) :
               LRNone \in Range(ParseAll(ParamsGet(p, args[i], <<>>)))
         THEN ErrEmptyAfter
         ELSE ""

\* the '' checks: the message raised, "" when they pass
EmptyTagCheck(p, args, Nrequired) ==
    IF Nrequired > 1 /\ LRNone \in Range(ParseAll(ParamsGet(p, args[1], <<>>)))
    THEN ErrEmptyFirst
    ELSE IF \E i \in 2..Len(args) :
               LRNone \in Range(ParseAll(ParamsGet(p, args[i], <<>>)))
         THEN ErrEmptyAfter
         ELSE ""

RECURSIVE GroupsAscending(_, _, _, _)
\* the groups of the same arities accumulated shortest first
GroupsAscending(p, args, from, Nrequired) ==
    IF from < Nrequired THEN <<>>
    ELSE LET ls == [i \in 1..from |-> ParamsGet(p, args[i], <<"?">>)]
         IN  GroupsAscending(p, args, from - 1, Nrequired)
             \o (IF Len(ls) > 0 THEN _product(ls) ELSE <<>>)

RECURSIVE GroupsFrom(_, _, _, _)
\* groups accumulated by the loop over n = from, from-1, ..., Nrequired
GroupsFrom(p, args, from, Nrequired) ==
    IF from < Nrequired THEN <<>>
    ELSE LET ls == [i \in 1..from |-> ParamsGet(p, args[i], <<"?">>)]
         IN  (IF Len(ls) > 0 THEN _product(ls) ELSE <<>>)
             \o GroupsFrom(p, args, from - 1, Nrequired)

\* the index into defaults that the annotation of a group uses for args[n]
\* (n 0-based)
DefaultIndex(n, group, Nrequired) == n - Len(group)

\* the defaults annotation of a group shorter than Nparams
DefaultsNote(group, args, defaults) ==
    LET Nparams == Len(args)
        Nrequired == Nparams - Len(defaults)
    IN  ": defaults ["
        \o Join([k \in 1..(Nparams - Len(group)) |->
                   LET n == Len(group) + k - 1 IN
                   NameEqValue(args[n + 1],
                               defaults[DefaultIndex(n, group, Nrequired) + 1])],
                ", ")
        \o "]"

\* the descriptor of one group
GroupType(group) ==
    IF Len(group) > 1 THEN LRCluster(ParseAll(group))
    ELSE parseTypeTag(group[1])

\* the display string of one group
GroupString(group, args, defaults) ==
    LET t == GroupType(group)
        base == IF Len(group) > 1
                THEN "(" \o Join([i \in 1..Len(group) |->
                                    t.items[i].tag \o "{" \o args[i] \o "}"],
                                 ", ") \o ")"
                ELSE group[1] \o "{" \o args[1] \o "}"
    IN  IF Len(group) < Len(args)
        THEN base \o DefaultsNote(group, args, defaults)
        ELSE base

\* Nparams >= 2
DecoratedN(p, args, defaults) ==
    LET Nparams == Len(args)
        Nrequired == Nparams - Len(defaults)
        e1 == FirstArgCheck(p, args, Nrequired)
        e2 == EmptyTagCheck(p, args, Nrequired)
        groups == GroupsFrom(p, args, Nparams, Nrequired)
        accepts_t == [i \in 1..Len(groups) |-> GroupType(groups[i])]
        accepts_s == [i \in 1..Len(groups) |->
                        GroupString(groups[i], args, defaults)]
    IN  IF e1 # "" THEN [reg |-> Raised(args, defaults, e1), params |-> p]
        ELSE IF e2 # "" THEN [reg |-> Raised(args, defaults, e2), params |-> p]
        ELSE IF \E i \in 1..Len(groups) :
                   Len(groups[i]) = 1 /\ accepts_t[i].cls = "LRCluster"
        THEN [reg |-> Raised(args, defaults, ErrClusterFirst), params |-> p]
        ELSE IF Nrequired = 0
        THEN IF LRNone \notin Range(accepts_t)
             THEN [reg |-> Annotated(args, defaults,
                       Append(accepts_s,
                              ": defaults ["
                              \o Join([i \in 1..Nparams |->
                                         NameEqValue(args[i], defaults[i])],
                                      ", ")
                              \o "]"),
                       Append(accepts_t, LRNone), groups, TRUE, "unpackNopt"),
                   params |-> p]
             ELSE [reg |-> Annotated(args, defaults, accepts_s, accepts_t,
                                     groups, FALSE, "unpackNopt"),
                   params |-> p]
        ELSE [reg |-> Annotated(args, defaults, accepts_s, accepts_t, groups,
                                FALSE, "unpackN"),
              params |-> p]

\* decorated(f) once every key of params names a parameter of f
Decorated(p, args, defaults) ==
    IF Len(args) = 0 THEN Decorated0(p, args, defaults)
    ELSE IF Len(args) = 1 THEN Decorated1(p, args, defaults)
    ELSE DecoratedN(p, args, defaults)

(***************************************************************************)
(* Decoded payloads and f.unpack(self, c, data)                            *)
(***************************************************************************)
PyNone == [shape |-> "none", items |-> <<>>]
Scalar(v) == [shape |-> "scalar", items |-> <<v>>]
PyTuple(vs) == [shape |-> "tuple", items |-> vs]

\* the payloads handed to an adapter: the absence marker, scalars, and the
\* tuples (1,), (1, 2), ... of up to MaxParams elements
Payloads ==
    {PyNone} \cup {Scalar(v) : v \in PayloadVals}
    \cup {PyTuple([i \in 1..m |-> i]) : m \in 1..MaxParams}

\* the elements of a tuple payload in reverse order
SpreadReversed(data) ==
    [i \in 1..Len(data.items) |-> Scalar(data.items[Len(data.items) + 1 - i])]

\* *data: the elements of a tuple payload as positional values
Spread(data) == [i \in 1..Len(data.items) |-> Scalar(data.items[i])]

\* the adapters with the None branch in both adapters of two or more
\* parameters
UnpackNoneBranchAlways(shape, data) ==
    CASE shape = "unpack0" -> << <<>> >>
      [] shape = "unpack1opt" ->
            IF data = PyNone THEN << <<>> >> ELSE << <<data>> >>
      [] shape = "f" -> << <<data>> >>
      [] shape \in {"unpackNopt", "unpackN"} ->
            IF data.shape = "tuple" THEN << Spread(data) >>
            ELSE IF data = PyNone THEN << <<>> >>
            ELSE << <<data>> >>

\* the positional arguments, after self and c, of each call of f that the
\* adapter makes
Unpack(shape, data) ==
    CASE shape = "unpack0" -> << <<>> >>
      [] shape = "unpack1opt" ->
            IF data = PyNone THEN << <<>> >> ELSE << <<data>> >>
      [] shape = "f" -> << <<data>> >>
      [] shape = "unpackNopt" ->
            IF data.shape = "tuple" THEN << Spread(data) >>
            ELSE IF data = PyNone THEN << <<>> >>
            ELSE << <<data>> >>
      [] shape = "unpackN" ->
            IF data.shape = "tuple" THEN << Spread(data) >>
            ELSE << <<data>> >>

\* the binding of positional arguments to f's parameters: a TypeError when
\* their number is outside Nrequired..Nparams, else the values the
\* parameters take
Bind(args, defaults, posargs) ==
    LET Nparams == Len(args)
        Nrequired == Nparams - Len(defaults)
        k == Len(posargs)
    IN  IF Nrequired <= k /\ k <= Nparams
        THEN [ok |-> TRUE,
              values |-> [n \in 1..Nparams |->
                            IF n <= k THEN posargs[n]
                            ELSE Scalar(defaults[n - Nrequired])]]
        ELSE [ok |-> FALSE, values |-> <<>>]

NoCall == [made |-> FALSE, data |-> PyNone, invoked |-> <<>>, bound |-> <<>>]

(***************************************************************************)
(* Specification of the decorator                                          *)
(***************************************************************************)
RECURSIVE ParamMaps(_, _)
\* the keyword dicts over the parameter names from position i on that
\* declare at most budget tags in all
ParamMaps(i, budget) ==
    IF i > MaxParams THEN {<<>>}
    ELSE LET absent == ParamMaps(i + 1, budget)
             present ==
                 UNION {UNION {{(ArgName(i - 1) :> l) @@ m :
                                   m \in ParamMaps(i + 1, budget - Len(l))} :
                               l \in [1..k -> Tags]} :
                        k \in 0..budget}
         IN  absent \cup present

\* the default values of k optional parameters, all different: 1, 2, ..., k
Defaults(k) == [i \in 1..k |-> i]

Init ==
    /\ params \in ParamMaps(1, MaxTags)
    /\ reg = NotDecorated
    /\ call = NoCall
    /\ lists = <<>>
    /\ combos = <<>>
    /\ pc = "registration"

\* decorated(f) for a handler f with n parameters, the last Len(d) of them
\* with the defaults d
Decorate ==
    /\ pc = "registration"
    /\ \E n \in 0..MaxParams :
         \E d \in {Defaults(k) : k \in 0..n} :
           LET args == ArgNames(n)
               unknown == DOMAIN params \ Range(args)
           IN  IF unknown # {}
               THEN /\ \E p \in unknown :
                         reg' = Raised(args, d, ErrNotValid(p))
                    /\ params' = params
               ELSE LET r == Decorated(params, args, d)
                    IN  /\ reg' = r.reg
                        /\ params' = r.params
    /\ call' = NoCall
    /\ UNCHANGED <<lists, combos, pc>>

\* f.unpack(self, c, data) on the handler that decorated returned; handlers
\* are decorated when the server class is defined, before any request
Call ==
    /\ pc \in {"registration", "serving"}
    /\ reg.isSetting
    /\ \E data \in Payloads :
         LET inv == Unpack(reg.unpack, data)
         IN  call' = [made |-> TRUE, data |-> data, invoked |-> inv,
                      bound |-> [i \in 1..Len(inv) |->
                                   Bind(reg.args, reg.defaults, inv[i])]]
    /\ pc' = "serving"
    /\ UNCHANGED <<params, reg, lists, combos>>

Next == Decorate \/ Call

Spec == Init /\ [][Next]_vars

(***************************************************************************)
(* Specification of _product alone                                         *)
(***************************************************************************)
InitProduct ==
    /\ params = <<>>
    /\ reg = NotDecorated
    /\ call = NoCall
    /\ lists \in SeqsUpTo(SeqsUpTo(Elems, MaxChoices), MaxPositions)
    /\ combos = <<>>
    /\ pc = "call"

ProductCall ==
    /\ pc = "call"
    /\ combos' = _product(lists)
    /\ pc' = "return"
    /\ UNCHANGED <<params, reg, call, lists>>

NextProduct == ProductCall

SpecProduct == InitProduct /\ [][NextProduct]_vars

(***************************************************************************)
(* Vocabulary of the properties                                            *)
(***************************************************************************)
Nparams == Len(reg.args)
Nrequired == Len(reg.args) - Len(reg.defaults)

\* every key of params names a parameter of the handler
KeysValid == DOMAIN params \subseteq Range(reg.args)

\* the descriptors declared for the n-th parameter (1-based), none if absent
DeclaredTypes(n) == Range(ParseAll(ParamsGet(params, reg.args[n], <<>>)))

AmbiguousFirstArgErrors == {ErrMustSpecify, ErrClusterOrAny}
InvalidEmptyTagErrors == {ErrEmptyFirst, ErrEmptyAfter}

\* the first parameter has a declared list with neither ? nor a cluster
FirstArgConcrete ==
    /\ reg.args[1] \in DOMAIN params
    /\ \A t \in DeclaredTypes(1) : t.cls \notin {"LRAny", "LRCluster"}

\* the default that the handler declares for its n-th parameter (1-based)
OwnDefault(n) == reg.defaults[n - Nrequired]

\* the arity of the i-th entry of the accepted-shapes table: the length of
\* its group; 1 for a declared type of a one-parameter handler; 0 for the
\* no-argument entry that registration adds itself
Arity(i) ==
    IF Nparams >= 2
    THEN IF i <= Len(reg.groups) THEN Len(reg.groups[i]) ELSE 0
    ELSE IF Nparams = 1
    THEN IF reg.appended /\ i = Len(reg.accepts) THEN 0 ELSE 1
    ELSE 0

(***************************************************************************)
(* C10                                                                     *)
(***************************************************************************)
RECURSIVE SizeFrom(_)
\* the product of the lengths of the position lists from position i on
SizeFrom(i) == IF i > Len(lists) THEN 1 ELSE Len(lists[i]) * SizeFrom(i + 1)

RECURSIVE RankFrom(_, _)
\* the 0-based lexicographic rank of the choice c within positions i..
RankFrom(c, i) ==
    IF i > Len(lists) THEN 0
    ELSE (c[i] - 1) * SizeFrom(i + 1) + RankFrom(c, i + 1)

\* one index into each position list
Choices ==
    {c \in [1..Len(lists) -> 1..MaxChoices] :
        \A i \in 1..Len(lists) : c[i] <= Len(lists[i])}

\* C10: _product(lists) has one combination per choice of one element from
\* each list, in position order, at the lexicographic rank of the choice
\* (first position most significant), and nothing else: its length is the
\* product of the list lengths, which is 1 for zero positions.
ProductIsCartesian ==
    pc = "return" =>
        /\ Len(combos) = SizeFrom(1)
        /\ \A c \in Choices :
              combos[RankFrom(c, 1) + 1] = [i \in 1..Len(lists) |-> lists[i][c[i]]]

ProductWitness ==
    /\ pc = "return"
    /\ lists = << <<"a", "b">>, <<"c">> >>
    /\ combos = << <<"a", "c">>, <<"b", "c">> >>

(***************************************************************************)
(* C6                                                                      *)
(***************************************************************************)
\* C6: for a handler with at least two parameters, at most one of them
\* required, and only valid keys, decorated raises one of the two
\* first-argument errors exactly when the first parameter has no declared
\* list or declares ? or a cluster; with two or more required parameters
\* neither error is ever raised.
FirstArgRule ==
    reg.attempted =>
        /\ (Nparams >= 2 /\ Nrequired <= 1 /\ KeysValid) =>
              (reg.error \in AmbiguousFirstArgErrors <=> ~FirstArgConcrete)
        /\ Nrequired >= 2 => reg.error \notin AmbiguousFirstArgErrors

FirstArgWitness ==
    /\ reg.attempted /\ Nparams = 2 /\ Nrequired = 0
    /\ params = ("arg0" :> <<"?">>)
    /\ reg.error = ErrClusterOrAny

(***************************************************************************)
(* C7                                                                      *)
(***************************************************************************)
\* C7: for a handler with at least two parameters that passes the
\* unknown-parameter and first-argument checks, decorated raises an
\* empty-tag error exactly when '' is declared for a parameter after the
\* first, or for the first while more than one parameter is required; a
\* registered handler never has '' on a parameter after the first.
EmptyTagRule ==
    (reg.attempted /\ Nparams >= 2 /\ KeysValid
       /\ reg.error \notin AmbiguousFirstArgErrors) =>
        /\ reg.error \in InvalidEmptyTagErrors <=>
              \/ \E n \in 2..Nparams : LRNone \in DeclaredTypes(n)
              \/ Nrequired > 1 /\ LRNone \in DeclaredTypes(1)
        /\ reg.isSetting => \A n \in 2..Nparams : LRNone \notin DeclaredTypes(n)

EmptyTagWitness ==
    /\ reg.attempted /\ Nparams = 3 /\ Nrequired = 3
    /\ params = ("arg0" :> <<"", "s">>)
    /\ reg.error = ErrEmptyFirst

(***************************************************************************)
(* C2                                                                      *)
(***************************************************************************)
\* the display string of a group without its defaults annotation
BaseString(group) == GroupString(group, SubSeq(reg.args, 1, Len(group)), <<>>)

\* C2: every group shorter than Nparams ends with a defaults annotation that
\* lists the omitted parameters Len(group)..Nparams-1 in order, each with
\* the default that the handler declares for that parameter.
DefaultsAreOwn ==
    (reg.isSetting /\ Nparams >= 2) =>
        \A i \in 1..Len(reg.groups) :
            LET g == reg.groups[i] IN
            Len(g) < Nparams =>
                reg.accepts[i] =
                    BaseString(g) \o ": defaults ["
                    \o Join([k \in 1..(Nparams - Len(g)) |->
                               NameEqValue(reg.args[Len(g) + k],
                                           OwnDefault(Len(g) + k))], ", ")
                    \o "]"

(***************************************************************************)
(* C1                                                                      *)
(***************************************************************************)
\* the payload has the shape of the i-th entry of the table: None for a
\* no-argument entry, a tuple of n elements for a group of n >= 2, and for
\* a single type a scalar, or the whole tuple when the type is a cluster
Matches(data, i) ==
    LET t == reg.accepts_t[i] IN
    IF t = LRNone THEN data = PyNone
    ELSE IF Arity(i) >= 2
    THEN data.shape = "tuple" /\ Len(data.items) = Arity(i)
    ELSE IF t.cls = "LRCluster"
    THEN data.shape = "tuple" /\ Len(data.items) = Len(t.items)
    ELSE data.shape = "scalar"

\* the positional values that the payload of the i-th entry stands for
PayloadValues(data, i) ==
    IF data = PyNone THEN {<<>>, <<PyNone>>}
    ELSE IF Arity(i) >= 2
    THEN {[n \in 1..Len(data.items) |-> Scalar(data.items[n])]}
    ELSE {<<data>>}

\* C1: a payload of the shape of any entry of a registered handler's table
\* makes the adapter call the handler exactly once, with k positional
\* values in payload order, Nrequired <= k <= Nparams; the call binds, the
\* first k parameters take those values and the others their own defaults.
DispatchFollowsTable ==
    (reg.isSetting /\ call.made) =>
        \A i \in 1..Len(reg.accepts) :
            Matches(call.data, i) =>
                /\ Len(call.invoked) = 1
                /\ call.invoked[1] \in PayloadValues(call.data, i)
                /\ Nrequired <= Len(call.invoked[1])
                /\ Len(call.invoked[1]) <= Nparams
                /\ call.bound[1].ok
                /\ \A n \in 1..Nparams :
                      call.bound[1].values[n] =
                          IF n <= Len(call.invoked[1])
                          THEN call.invoked[1][n]
                          ELSE Scalar(OwnDefault(n))

DispatchWitness ==
    /\ reg.isSetting /\ Nparams = 3 /\ Nrequired = 1
    /\ call.made /\ call.data = PyTuple(<<1, 2>>)
    /\ \E i \in 1..Len(reg.accepts) : Matches(call.data, i)
    /\ call.bound[1].values = <<Scalar(1), Scalar(2), Scalar(OwnDefault(3))>>

(***************************************************************************)
(* C3                                                                      *)
(***************************************************************************)
\* C3 as stated: every adapter of a handler with two or more parameters
\* spreads a tuple, else calls with the context alone on None, else passes
\* the payload as the one positional value.
AdapterNUniform ==
    (reg.isSetting /\ Nparams >= 2 /\ call.made) =>
        call.invoked =
            IF call.data.shape = "tuple" THEN << Spread(call.data) >>
            ELSE IF call.data = PyNone THEN << <<>> >>
            ELSE << <<call.data>> >>

\* the adapter that decorated selects for a signature
AdapterFor(np, nr) ==
    IF np = 0 THEN "unpack0"
    ELSE IF np = 1 THEN (IF nr = 0 THEN "unpack1opt" ELSE "f")
    ELSE IF nr = 0 THEN "unpackNopt" ELSE "unpackN"

\* C3 as amended: the adapter is one of five, fixed by (Nparams, Nrequired);
\* with two or more parameters it spreads a tuple; otherwise, only when no
\* parameter is required, None makes it call with the context alone;
\* otherwise the payload, None included, is the one positional value.
AdapterNByRequired ==
    reg.isSetting =>
        /\ reg.unpack = AdapterFor(Nparams, Nrequired)
        /\ (Nparams >= 2 /\ call.made) =>
              call.invoked =
                  IF call.data.shape = "tuple" THEN << Spread(call.data) >>
                  ELSE IF call.data = PyNone /\ Nrequired = 0 THEN << <<>> >>
                  ELSE << <<call.data>> >>

AdapterNWitness ==
    /\ reg.isSetting /\ Nparams >= 2 /\ Nrequired >= 1
    /\ call.made /\ call.data = PyNone
    /\ call.invoked = << <<PyNone>> >>

(***************************************************************************)
(* C5                                                                      *)
(***************************************************************************)
\* C5 as stated: no registered handler has a cluster as the single
\* descriptor of an entry of arity 1.
NoClusterAlone ==
    reg.isSetting =>
        \A i \in 1..Len(reg.accepts) :
            Arity(i) = 1 => reg.accepts_t[i].cls # "LRCluster"

\* C5 as amended: with two or more parameters and a group of arity 1
\* (Nrequired <= 1), a cluster declared for the first parameter always
\* fails registration, with the first-argument error when the keys are
\* valid, and the cluster-in-first-param error is never the one raised;
\* with one parameter and valid keys registration always succeeds, a
\* declared cluster becoming an entry of the table.
ClusterAloneRule ==
    reg.attempted =>
        /\ (Nparams >= 2 /\ Nrequired <= 1
              /\ \E t \in DeclaredTypes(1) : t.cls = "LRCluster") =>
              /\ ~reg.isSetting
              /\ KeysValid => reg.error = ErrClusterOrAny
        /\ reg.error # ErrClusterFirst
        /\ (Nparams = 1 /\ KeysValid) =>
              /\ reg.isSetting
              /\ \A t \in DeclaredTypes(1) : t \in Range(reg.accepts_t)

ClusterAloneWitness ==
    /\ reg.attempted /\ Nparams >= 2 /\ Nrequired <= 1 /\ KeysValid
    /\ \E t \in DeclaredTypes(1) : t.cls = "LRCluster"
    /\ reg.error = ErrClusterOrAny

(***************************************************************************)
(* C8                                                                      *)
(***************************************************************************)
ArityDescends ==
    \A i, j \in 1..Len(reg.accepts) : i < j => Arity(i) >= Arity(j)

\* C8 as stated: arities never increase along the table, and an entry whose
\* descriptor is the no-argument type alone is the last entry.
NoneEntryLast ==
    reg.isSetting =>
        /\ ArityDescends
        /\ \A i \in 1..Len(reg.accepts) :
              reg.accepts_t[i] = LRNone => i = Len(reg.accepts)

\* C8 as amended: arities never increase along the table, and the
\* no-argument entry that registration adds itself is the last entry and the
\* only no-argument entry; a '' declared for the first parameter stays where
\* it was declared.
AddedNoneEntryLast ==
    reg.isSetting =>
        /\ ArityDescends
        /\ reg.appended =>
              /\ Len(reg.accepts) = Len(reg.accepts_t)
              /\ \A i \in 1..Len(reg.accepts) :
                    reg.accepts_t[i] = LRNone <=> i = Len(reg.accepts)

AddedNoneWitness ==
    /\ reg.isSetting /\ reg.appended /\ Nparams = 2
    /\ Len(reg.accepts) = 3
    /\ Arity(1) = 2 /\ Arity(2) = 1 /\ Arity(3) = 0

(***************************************************************************)
(* C4                                                                      *)
(***************************************************************************)
\* a step that is a decorated(f) call for a handler of one parameter which
\* returns the annotated handler
RegistersOne ==
    /\ pc' = "registration"
    /\ reg'.isSetting
    /\ Len(reg'.args) = 1

\* the entry ': defaults [name=default]' of the handler registered by the step
NoneEntryOfStep ==
    ": defaults [" \o reg'.args[1] \o "=" \o ToString(reg'.defaults[1]) \o "]"

\* C4 as stated: the table of a one-parameter handler is the declared list,
\* or ['?'] when none is declared, plus one no-argument entry with the
\* default when the parameter is optional and the list has no no-argument
\* type.
OneParamTableOrAny ==
    [][RegistersOne =>
          LET declared == ParamsGet(params, reg'.args[1], <<"?">>)
          IN  reg'.accepts =
                  IF Len(reg'.defaults) = 1
                     /\ LRNone \notin Range(ParseAll(declared))
                  THEN Append(declared, NoneEntryOfStep)
                  ELSE declared]_vars

\* C4 as amended: the table of a one-parameter handler is the declared list,
\* or empty when none is declared, plus one no-argument entry with the
\* default when the parameter is optional and the list is not empty and has
\* no no-argument type.
OneParamTable ==
    [][RegistersOne =>
          LET declared == ParamsGet(params, reg'.args[1], <<>>)
          IN  reg'.accepts =
                  IF Len(reg'.defaults) = 1 /\ Len(declared) > 0
                     /\ LRNone \notin Range(ParseAll(declared))
                  THEN Append(declared, NoneEntryOfStep)
                  ELSE declared]_vars

OneParamWitness ==
    /\ reg.isSetting /\ Nparams = 1 /\ Nrequired = 0 /\ reg.appended
    /\ reg.accepts = <<"s", ": defaults [arg0=1]">>

(***************************************************************************)
(* C9                                                                      *)
(***************************************************************************)
\* C9: no decorated(f) call, whether it returns or raises, changes a type
\* list of the caller's accepted-types map.
ParamsUntouched == [][params' = params]_vars


====
